---- MODULE Spec2Model ----
(***************************************************************************)
(* Model of the Go coverage module (out/src/goCover.js of ms-vscode.go).   *)
(*                                                                         *)
(* Text is modelled as sequences of one-character strings, so that the     *)
(* regular expression of the 'line' handler, parseInt, path.basename,      *)
(* path.join, startsWith and endsWith are computed character by character. *)
(* The host is POSIX (process.platform # 'win32', path.sep = '/').         *)
(***************************************************************************)
EXTENDS Integers, Sequences, FiniteSets, TLC

VARIABLES
    coverageFiles,      \* goCover.js:100  key -> [coveredRange, uncoveredRange]
    isCoverageApplied,  \* goCover.js:101
    decorators,         \* goCover.js:14   the current decoration types
    shown,              \* host: editor -> decorations set with the current types
    pass,               \* the invocations of toggle / applyCodeCoverageToAllEditors
    origin,             \* history: for every range of coverageFiles, its pass and line
    delivered,          \* history: the number of 'line' events delivered so far
    cssEditor,          \* host: the editor the CSS preview is asked for, and the
                        \* snippet getSelectedCSSProperity returned
    goConfig,           \* host: 'go.coverageDecorator' in the three scopes of the
                        \* settings, and what initCoverageDecorators inspected
    discarded,          \* history: coverage was cleared by toggle or by a change of a
                        \* document, and no pass has begun since
    last                \* history: the last operation; for toggle, 'line' and a
                        \* change of a document what it saw

vars ==
    <<coverageFiles, isCoverageApplied, decorators, shown, pass, origin, delivered,
      goConfig, cssEditor, discarded, last>>

(***************************************************************************)
(* Bounds.                                                                 *)
(***************************************************************************)
\* invocations (test runs and ingestion passes) over one run of the model
MaxPasses == 2
\* 'line' events delivered over one run of the model
MaxLines == 2

(***************************************************************************)
(* Characters and strings.                                                 *)
(***************************************************************************)
Digits == <<"0", "1", "2", "3", "4", "5", "6", "7", "8", "9">>

\* \d of the regular expression
IsDigit(c) == \E i \in 1..10 : Digits[i] = c

\* \s of the regular expression (the white space the profiles contain)
SpaceChars == {" ", "\t"}

DigitValue(c) == (CHOOSE i \in 1..10 : Digits[i] = c) - 1

\* parseInt(s) of a string of decimal digits (what the groups ([\d]+) hold)
RECURSIVE parseInt(_)
parseInt(s) ==
    IF Len(s) = 0 THEN 0
    ELSE 10 * parseInt(SubSeq(s, 1, Len(s) - 1)) + DigitValue(s[Len(s)])

\* s.startsWith(prefix)
startsWith(s, prefix) ==
    /\ Len(prefix) <= Len(s)
    /\ SubSeq(s, 1, Len(prefix)) = prefix

\* s.endsWith(suffix)
endsWith(s, suffix) ==
    /\ Len(suffix) <= Len(s)
    /\ SubSeq(s, Len(s) - Len(suffix) + 1, Len(s)) = suffix

\* the positions of character c in s
IndicesOf(s, c) == {i \in 1..Len(s) : s[i] = c}

Max(S) == CHOOSE m \in S : \A n \in S : n <= m
Min(S) == CHOOSE m \in S : \A n \in S : m <= n

\* path.basename(p) on POSIX: what follows the last '/', trailing '/' dropped
RECURSIVE basename(_)
basename(p) ==
    IF Len(p) > 0 /\ p[Len(p)] = "/" THEN basename(SubSeq(p, 1, Len(p) - 1))
    ELSE IF IndicesOf(p, "/") = {} THEN p
    ELSE SubSeq(p, Max(IndicesOf(p, "/")) + 1, Len(p))

\* path.dirname(p) on POSIX for an absolute file path
dirname(p) ==
    IF IndicesOf(p, "/") = {} THEN <<".">>
    ELSE IF Max(IndicesOf(p, "/")) = 1 THEN <<"/">>
    ELSE SubSeq(p, 1, Max(IndicesOf(p, "/")) - 1)

\* path.join(dir, name) on POSIX, for a normalized dir and a plain name
pathJoin(dir, name) ==
    IF Len(name) = 0 THEN dir
    ELSE IF Len(dir) = 0 THEN name
    ELSE IF dir[Len(dir)] = "/" THEN dir \o name
    ELSE dir \o <<"/">> \o name

(***************************************************************************)
(* The regular expression of the 'line' handler:                           *)
(*   /([^:]+)\:([\d]+)\.([\d]+)\,([\d]+)\.([\d]+)\s([\d]+)\s([\d]+)/       *)
(* It is not anchored.  ([^:]+) is followed by ':' and every ([\d]+) by a  *)
(* non-digit (or the end), so for a given ':' each group is the maximal    *)
(* run; the engine returns the match of the leftmost start, i.e. of the    *)
(* first ':' after which the rest of the pattern matches.                  *)
(***************************************************************************)
NoMatch == <<>>

\* the end (exclusive) of the maximal run of digits of s starting at i
DigitsEnd(s, i) ==
    Min({j \in i..(Len(s) + 1) : j = Len(s) + 1 \/ ~IsDigit(s[j])})

\* the start of the maximal run of non-':' characters of s ending before e
RunStart(s, e) ==
    Min({j \in 1..e : \A k \in j..(e - 1) : s[k] # ":"})

\* ([\d]+) at i followed by one of the characters seps: the position after
\* that character, or 0
AfterNumber(s, i, seps) ==
    LET j == DigitsEnd(s, i)
    IN  IF i <= Len(s) /\ j > i /\ j <= Len(s) /\ s[j] \in seps THEN j + 1 ELSE 0

\* \. of the regular expression
DotChars == {"."}

\* mutant: a blank is taken for the comma
CommaChars_OrSpace == {",", " "}

\* \, of the regular expression
CommaChars == {","}

\* what follows each of the first five ([\d]+) of the pattern:  \. \, \. \s \s
Separators == <<DotChars, CommaChars, DotChars, SpaceChars, SpaceChars>>

\* The starts of the groups 2..7: starts holds those of the groups 2..k+1;
\* <<>> when one of the groups k+1..6 or its separator is missing.
RECURSIVE GroupStarts(_, _, _)
GroupStarts(s, starts, k) ==
    IF k > Len(Separators) THEN starts
    ELSE LET next == AfterNumber(s, starts[k], Separators[k])
         IN  IF next = 0 THEN <<>> ELSE GroupStarts(s, Append(starts, next), k + 1)

\* the groups 1..7, group 1 starting at g1 and ending before the ':' at e,
\* group n + 1 starting at starts[n], the last one ending before e7
GroupsOf(s, g1, e, starts, e7) ==
    << SubSeq(s, g1, e - 1),
       SubSeq(s, starts[1], starts[2] - 2),
       SubSeq(s, starts[2], starts[3] - 2),
       SubSeq(s, starts[3], starts[4] - 2),
       SubSeq(s, starts[4], starts[5] - 2),
       SubSeq(s, starts[5], starts[6] - 2),
       SubSeq(s, starts[6], e7 - 1) >>

\* the match with ':' at position e: the seven groups, or NoMatch
MatchAt(s, e) ==
    LET starts == GroupStarts(s, <<e + 1>>, 1)
    IN  IF /\ RunStart(s, e) < e
           /\ starts # <<>>
           /\ starts[6] <= Len(s)
           /\ DigitsEnd(s, starts[6]) > starts[6]
        THEN GroupsOf(s, RunStart(s, e), e, starts, DigitsEnd(s, starts[6]))
        ELSE NoMatch

\* data.match(/.../): the groups 1..7 of the leftmost match, or NoMatch
Match(data) ==
    LET hits == {e \in IndicesOf(data, ":") : MatchAt(data, e) # NoMatch}
    IN  IF hits = {} THEN NoMatch ELSE MatchAt(data, Min(hits))

(***************************************************************************)
(* The inputs: cover profile lines, base directories, editors.             *)
(***************************************************************************)
\* decimal text of a natural number (how go test writes the fields)
RECURSIVE ToDigits(_)
ToDigits(n) ==
    IF n < 10 THEN <<Digits[n + 1]>>
    ELSE ToDigits(n \div 10) \o <<Digits[(n % 10) + 1]>>

\* the text of a data line:
\*   filename:StartLine.StartColumn,EndLine.EndColumn Hits CoverCount
DataLine(dir, base, sl, sc, el, ec, hits, count) ==
    [ kind |-> "data", dir |-> dir, base |-> base,
      sl |-> sl, sc |-> sc, el |-> el, ec |-> ec, hits |-> hits, count |-> count,
      text |-> dir \o base \o <<":">> \o ToDigits(sl) \o <<".">> \o ToDigits(sc)
               \o <<",">> \o ToDigits(el) \o <<".">> \o ToDigits(ec)
               \o <<" ">> \o ToDigits(hits) \o <<" ">> \o ToDigits(count) ]

OtherLine(text) == [kind |-> "other", text |-> text]

\* The lines a profile is made of.  Positions are as go test writes them:
\* 1-based, the start not after the end.
ProfileLines ==
    << OtherLine(<<"m", "o", "d", "e", ":", " ", "s", "e", "t">>),
       DataLine(<<>>, <<"a", ".", "g", "o">>, 3, 1, 5, 2, 2, 1),
       DataLine(<<>>, <<"a", ".", "g", "o">>, 10, 1, 10, 5, 1, 0),
       DataLine(<<"_", "/", "x", "/">>, <<"a", ".", "g", "o">>, 2, 7, 4, 9, 1, 3),
       DataLine(<<>>, <<"b", ".", "g", "o">>, 1, 3, 1, 8, 1, 0),
       OtherLine(<<"a", ".", "g", "o", ":", "3", ".", "1", " ", "5", ".", "2", " ", "2", " ", "1">>) >>

LineIds == 1..Len(ProfileLines)

\* the editors of the window: document path, language, visibility
Editors ==
    << [fsPath |-> <<"/", "p", "/", "a", ".", "g", "o">>, languageId |-> "go", visible |-> TRUE],
       [fsPath |-> <<"/", "p", "/", "b", ".", "g", "o">>, languageId |-> "go", visible |-> TRUE],
       [fsPath |-> <<"/", "p", "/", "a", "_", "t", "e", "s", "t", ".", "g", "o">>,
        languageId |-> "go", visible |-> TRUE],
       [fsPath |-> <<"/", "q", "/", "n", ".", "m", "d">>, languageId |-> "markdown", visible |-> TRUE],
       [fsPath |-> <<"/", "p", "/", "c", ".", "g", "o">>, languageId |-> "go", visible |-> FALSE] >>

EditorIds == 1..Len(Editors)

\* vscode.window.visibleTextEditors
visibleTextEditors == {e \in EditorIds : Editors[e].visible}

\* no editor (activeTextEditor undefined)
NoEditor == 0

\* the package directories applyCodeCoverageToAllEditors is called with
PackageDirs == {<<"/", "p">>, <<"/", "q">>}

\* what fs.createReadStream(coverProfilePath) is given: a path (a stream is
\* created, whether or not the file can be read), or no path (it throws)
ProfilePathKinds == {"path", "invalid"}

\* go.coverageOptions: the three values the code tests for, and "unset" for
\* any other value the settings may hold
CoverageOptions ==
    {"showCoveredCodeOnly", "showUncoveredCodeOnly", "showBothCoveredAndUncoveredCode",
     "unset"}

\* decoratorConfig.type
DecoratorTypes == {"highlight", "gutter"}

(***************************************************************************)
(* The coverage index.  coverageFiles is a JavaScript object: its keys are *)
(* kept in insertion order (for..in), so it is modelled as the sequence of *)
(* its entries [filename, coveredRange, uncoveredRange].                   *)
(***************************************************************************)
\* let coverageFiles = {}
EmptyFiles == <<>>

\* process.platform and path.sep of the host
platform == "linux"
pathSep == "/"

\* filePath.split('/').join(path.sep)
ReplaceSlash(filePath) ==
    [i \in 1..Len(filePath) |-> IF filePath[i] = "/" THEN pathSep ELSE filePath[i]]

\* the key getCoverageData and setCoverageData use for filePath
NormalizedKey(filePath) ==
    LET stripped == IF startsWith(filePath, <<"_">>)
                    THEN SubSeq(filePath, 2, Len(filePath))
                    ELSE filePath
    IN  IF platform = "win32" THEN ReplaceSlash(stripped) ELSE stripped

\* the position of key in files, or 0
IndexOfKey(files, key) ==
    IF \E i \in 1..Len(files) : files[i].filename = key
    THEN CHOOSE i \in 1..Len(files) : files[i].filename = key
    ELSE 0

\* Object.keys(files)
KeysOf(files) == {files[i].filename : i \in 1..Len(files)}

\* getCoverageData(filePath): coverageFiles[filePath] || {coveredRange: [], uncoveredRange: []}
getCoverageData(files, filePath) ==
    LET key == NormalizedKey(filePath)
        i == IndexOfKey(files, key)
    IN  IF i # 0 THEN [coveredRange |-> files[i].coveredRange,
                       uncoveredRange |-> files[i].uncoveredRange]
        ELSE [coveredRange |-> <<>>, uncoveredRange |-> <<>>]

\* setCoverageData(filePath, data): coverageFiles[filePath] = data
setCoverageData(files, filePath, data) ==
    LET key == NormalizedKey(filePath)
        i == IndexOfKey(files, key)
        entry == [filename |-> key, coveredRange |-> data.coveredRange,
                  uncoveredRange |-> data.uncoveredRange]
    IN  IF i # 0 THEN [files EXCEPT ![i] = entry] ELSE Append(files, entry)

\* new vscode.Range(startLine, startCharacter, endLine, endCharacter)
Range(startLine, startCharacter, endLine, endCharacter) ==
    [startLine |-> startLine, startCharacter |-> startCharacter,
     endLine |-> endLine, endCharacter |-> endCharacter]

\* mutant: the columns are left one based
RangeOfMatch_ColumnsOneBased(fileRange) ==
    Range(parseInt(fileRange[2]) - 1, parseInt(fileRange[3]),
          parseInt(fileRange[4]) - 1, parseInt(fileRange[5]))

\* the range of a matched line, converted to zero based
RangeOfMatch(fileRange) ==
    Range(parseInt(fileRange[2]) - 1, parseInt(fileRange[3]) - 1,
          parseInt(fileRange[4]) - 1, parseInt(fileRange[5]) - 1)

\* mutant: the Hits field is read for the CoverCount field
IsCovered_ByHits(fileRange) == parseInt(fileRange[6]) > 0

\* If is Covered (CoverCount > 0)
IsCovered(fileRange) == parseInt(fileRange[7]) > 0

\* mutant: the directory of the profile's filename is kept
FilePathOf_WholeName(packageDirPath, fileRange) ==
    pathJoin(packageDirPath, fileRange[1])

\* path.join(packageDirPath, path.basename(fileRange[1]))
FilePathOf(packageDirPath, fileRange) ==
    pathJoin(packageDirPath, basename(fileRange[1]))

\* no history tag: the handler pushes the range
NoTag == [pass |-> 0]

\* The 'line' handler on the index `files`.  It pushes the range; run on the
\* history of the index (tag # NoTag) it pushes the tag of the line instead.
OnLine(files, packageDirPath, data, tag) ==
    LET fileRange == Match(data)
    IN  IF fileRange = NoMatch THEN files
        ELSE LET filePath == FilePathOf(packageDirPath, fileRange)
                 coverage == getCoverageData(files, filePath)
                 range == IF tag = NoTag THEN RangeOfMatch(fileRange) ELSE tag
                 pushed == IF IsCovered(fileRange)
                           THEN [coverage EXCEPT !.coveredRange = Append(@, range)]
                           ELSE [coverage EXCEPT !.uncoveredRange = Append(@, range)]
             IN  setCoverageData(files, filePath, pushed)

(***************************************************************************)
(* Decorators.  Disposing a decoration type removes its decorations from   *)
(* every editor; `shown` holds, per editor, the ranges set with the        *)
(* current (undisposed) types, by the name of the decorator.               *)
(***************************************************************************)
NoDecorations == [e \in EditorIds |-> <<>>]

\* disposeDecorators(): the four types are disposed
disposeDecorators(st) ==
    [st EXCEPT !.decorators = [@ EXCEPT !.disposed = TRUE],
               !.shown = NoDecorations]

\* setDecorators(): dispose, then create the four types anew
setDecorators(st) ==
    [disposeDecorators(st) EXCEPT !.decorators = [type |-> st.decorators.type,
                                                  disposed |-> FALSE]]

\* mutant: the index is kept
clearCoverage_KeepsFiles(st) == [disposeDecorators(st) EXCEPT !.applied = FALSE]

\* clearCoverage()
clearCoverage(st) ==
    [disposeDecorators(st) EXCEPT !.files = EmptyFiles,
                                  !.origin = EmptyFiles,
                                  !.applied = FALSE]

\* editor.setDecorations(decorator, ranges)
setDecorations(st, e, name, ranges) ==
    [st EXCEPT !.shown[e] = [n \in (DOMAIN @) \cup {name} |->
                                IF n = name THEN ranges ELSE @[n]]]

CoveredDecorator(st) ==
    IF st.decorators.type = "gutter" THEN "coveredGutterDecorator"
    ELSE "coveredHighlightDecorator"

UncoveredDecorator(st) ==
    IF st.decorators.type = "gutter" THEN "uncoveredGutterDecorator"
    ELSE "uncoveredHighlightDecorator"

ShowsCovered(coverageOptions) ==
    coverageOptions \in {"showCoveredCodeOnly", "showBothCoveredAndUncoveredCode"}

ShowsUncovered(coverageOptions) ==
    coverageOptions \in {"showUncoveredCodeOnly", "showBothCoveredAndUncoveredCode"}

\* the body of the for..in loop of applyCodeCoverage for the i-th key
ApplyKey(st, e, coverageOptions, i) ==
    IF endsWith(Editors[e].fsPath, st.files[i].filename)
    THEN LET s1 == [st EXCEPT !.applied = TRUE]
             s2 == IF ShowsCovered(coverageOptions)
                   THEN setDecorations(s1, e, CoveredDecorator(s1), st.files[i].coveredRange)
                   ELSE s1
         IN  IF ShowsUncovered(coverageOptions)
             THEN setDecorations(s2, e, UncoveredDecorator(s2), st.files[i].uncoveredRange)
             ELSE s2
    ELSE st

RECURSIVE ApplyKeys(_, _, _, _)
ApplyKeys(st, e, coverageOptions, i) ==
    IF i > Len(st.files) THEN st
    ELSE ApplyKeys(ApplyKey(st, e, coverageOptions, i), e, coverageOptions, i + 1)

\* applyCodeCoverage(editor)
applyCodeCoverage(st, e, coverageOptions) ==
    IF \/ e = NoEditor
       \/ Editors[e].languageId # "go"
       \/ endsWith(Editors[e].fsPath, <<"_", "t", "e", "s", "t", ".", "g", "o">>)
    THEN st
    ELSE ApplyKeys(setDecorators(st), e, coverageOptions, 1)

\* vscode.window.visibleTextEditors.forEach(applyCodeCoverage), editors es
RECURSIVE ApplyAll(_, _, _)
ApplyAll(st, es, coverageOptions) ==
    IF es = {} THEN st
    ELSE ApplyAll(applyCodeCoverage(st, Min(es), coverageOptions),
                  es \ {Min(es)}, coverageOptions)

(***************************************************************************)
(* The module state as one value, and back.                                *)
(***************************************************************************)
Cur ==
    [files |-> coverageFiles, origin |-> origin, applied |-> isCoverageApplied,
     decorators |-> decorators, shown |-> shown]

Commit(st) ==
    /\ coverageFiles' = st.files
    /\ origin' = st.origin
    /\ isCoverageApplied' = st.applied
    /\ decorators' = st.decorators
    /\ shown' = st.shown

(***************************************************************************)
(* Invocations.  Slot p of `pass` is one invocation, through its stages:   *)
(*   free     not yet made                                                 *)
(*   test     toggle: waiting for isModSupported and goTest, whose         *)
(*            callbacks touch no state of this module                      *)
(*   reading  applyCodeCoverageToAllEditors: the readline interface is     *)
(*            delivering 'line' events                                     *)
(*   closed   'close' was delivered                                        *)
(*   errored  the read stream emitted 'error' (no handler is registered)   *)
(*   threw    createReadStream threw, the catch block ran                  *)
(* promise is the state of the promise of applyCodeCoverageToAllEditors,   *)
(* refs the history of the data lines of a pass that is still reading (for *)
(* every file path, how many data lines of the profile referred to it so   *)
(* far), closedBefore the passes that had closed when this one began.      *)
(***************************************************************************)
Passes == 1..MaxPasses

FreePass ==
    [stage |-> "free", dir |-> <<>>, refs |-> <<>>, promise |-> "none",
     closedBefore |-> {}]

\* the next unused slot, or 0
NextSlot ==
    IF \E p \in Passes : pass[p].stage = "free"
    THEN Min({p \in Passes : pass[p].stage = "free"})
    ELSE 0

\* the last operation was neither a toggle with an editor, nor a 'line' event,
\* nor a change of a Go document shown in a visible editor
OtherOp == [op |-> "other"]

\* The file path a data line of ProfileLines refers to under directory dir, and
\* the history refs with one more reference to it.
ReferredPath(dir, l) == dir \o <<"/">> \o ProfileLines[l].base

Referring(refs, dir, l) ==
    IF ProfileLines[l].kind # "data" THEN refs
    ELSE LET k == ReferredPath(dir, l)
         IN  [f \in (DOMAIN refs) \cup {k} |->
                 (IF f \in DOMAIN refs THEN refs[f] ELSE 0) + (IF f = k THEN 1 ELSE 0)]

(***************************************************************************)
(* The CSS preview (cssDocumentContentManager.js).  Offsets are zero based  *)
(* as in JavaScript; the character at offset k of text is text[k + 1].      *)
(***************************************************************************)
\* the longest document text
MaxCssLen == 4

CssChars == {"{", "}", "a"}

\* editor.document.getText(): the texts of up to MaxCssLen characters
CssTexts == UNION {[1..n -> CssChars] : n \in 0..MaxCssLen}

\* no editor is given, nothing was asked
NoCssEditor == [open |-> FALSE, text |-> <<>>, anchor |-> 0, snippet |-> [kind |-> "none"]]

\* HtmlUtil.errorSnippet(message)
errorSnippet(message) == [kind |-> "error", message |-> message]

\* text.lastIndexOf(c, position) for a character c: the search goes backwards
\* from min(max(position, 0), length - 1)
RECURSIVE lastIndexFrom(_, _, _)
lastIndexFrom(text, c, k) ==
    IF k < 0 THEN -1
    ELSE IF text[k + 1] = c THEN k
    ELSE lastIndexFrom(text, c, k - 1)

lastIndexOf(text, c, position) ==
    lastIndexFrom(text, c, Min({Max({position, 0}), Len(text) - 1}))

\* text.indexOf(c, position) for a character c: the search goes forwards from
\* max(position, 0)
RECURSIVE indexFrom(_, _, _)
indexFrom(text, c, k) ==
    IF k >= Len(text) THEN -1
    ELSE IF text[k + 1] = c THEN k
    ELSE indexFrom(text, c, k + 1)

indexOf(text, c, position) == indexFrom(text, c, Max({position, 0}))

\* text.slice(start, end) for 0 <= start, 0 <= end <= length
slice(text, start, end) == SubSeq(text, start + 1, end)

\* the body of getSelectedCSSProperity for an editor with a document
SelectedCSSProperity(text, startPosOfSelectionText) ==
    LET startPosOfCSSProperty == lastIndexOf(text, "{", startPosOfSelectionText)
        endPosOfCSSProperty == indexOf(text, "}", startPosOfCSSProperty)
    IN  IF startPosOfCSSProperty = -1 \/ endPosOfCSSProperty = -1
        THEN errorSnippet("Cannot determine the rule's properties.")
        ELSE [kind |-> "properties",
              value |-> slice(text, startPosOfCSSProperty + 1, endPosOfCSSProperty)]

(***************************************************************************)
(* The settings.  A value of 'go.coverageDecorator' in one scope is         *)
(* undefined, a string (the old style) or an object with a type (the new    *)
(* style); goConfig.coverageDecorator holds the value of each scope.        *)
(***************************************************************************)
Undefined == [kind |-> "undefined"]
StringValue(str) == [kind |-> "string", value |-> str]
\* { type: value }
ObjectValue(value) == [kind |-> "object", type |-> value]

\* what a scope can hold before activation
ScopeValues ==
    {Undefined} \cup {StringValue(t) : t \in DecoratorTypes}
                \cup {ObjectValue(StringValue(t)) : t \in DecoratorTypes}

Settings ==
    [globalValue : ScopeValues, workspaceValue : ScopeValues,
     workspaceFolderValue : ScopeValues]

\* settings in the new style, as they are once the extension is active
NewStyleSettings ==
    [globalValue |-> ObjectValue(StringValue("highlight")),
     workspaceValue |-> Undefined, workspaceFolderValue |-> Undefined]

\* initCoverageDecorators has not run
NotInspected == [kind |-> "none"]

\* typeof value === 'string'
IsString(value) == value.kind = "string"

\* goConfig.get('coverageDecorator'): the value of the innermost scope that
\* has one
EffectiveValue(settings) ==
    IF settings.workspaceFolderValue # Undefined THEN settings.workspaceFolderValue
    ELSE IF settings.workspaceValue # Undefined THEN settings.workspaceValue
    ELSE settings.globalValue

\* decoratorConfig.type after updateCodeCoverageDecorators(coverageDecoratorConfig)
ConfiguredType(coverageDecoratorConfig) ==
    IF IsString(coverageDecoratorConfig) THEN coverageDecoratorConfig.value
    ELSE IF coverageDecoratorConfig.kind = "object" THEN coverageDecoratorConfig.type.value
    ELSE "highlight"

\* the three goConfig.update calls of initCoverageDecorators
MigratedSettings(inspectResult) ==
    [globalValue |->
        IF IsString(inspectResult.globalValue)
        THEN ObjectValue(inspectResult.globalValue)
        ELSE inspectResult.globalValue,
     workspaceValue |->
        IF IsString(inspectResult.workspaceValue)
        THEN ObjectValue(inspectResult.workspaceValue)
        ELSE inspectResult.workspaceValue,
     workspaceFolderValue |->
        IF IsString(inspectResult.workspaceFolderValue)
        THEN ObjectValue(inspectResult.workspaceValue)
        ELSE inspectResult.workspaceFolderValue]

Init ==
    /\ coverageFiles = EmptyFiles
    /\ origin = EmptyFiles
    /\ isCoverageApplied = FALSE
    /\ decorators = [type |-> "highlight", disposed |-> FALSE]
    /\ shown = NoDecorations
    /\ pass = [p \in Passes |-> FreePass]
    /\ delivered = 0
    /\ discarded = FALSE
    /\ last = OtherOp
    /\ goConfig = [coverageDecorator |-> NewStyleSettings, inspectResult |-> NotInspected]
    /\ cssEditor = NoCssEditor

\* The executor of the promise of applyCodeCoverageToAllEditors, in slot p:
\* clearCoverage(), then createReadStream and the registration of the handlers,
\* or the catch block when createReadStream throws.
BeginPass(p, packageDirPath, pathKind) ==
    /\ Commit(clearCoverage(Cur))
    /\ discarded' = FALSE
    /\ UNCHANGED <<goConfig, cssEditor>>
    /\ pass' = [pass EXCEPT ![p] =
                  [stage |-> IF pathKind = "invalid" THEN "threw" ELSE "reading",
                   dir |-> IF pathKind = "invalid" THEN <<>> ELSE packageDirPath,
                   refs |-> <<>>,
                   promise |-> IF pathKind = "invalid" THEN "rejected" ELSE "pending",
                   closedBefore |-> {q \in Passes : pass[q].stage = "closed"}]]

\* toggleCoverageCurrentPackage(), vscode.window.activeTextEditor being editor
toggleCoverageCurrentPackage(editor) ==
    IF editor = NoEditor
    THEN /\ UNCHANGED <<coverageFiles, origin, isCoverageApplied, decorators, shown, pass>>
         /\ last' = OtherOp /\ UNCHANGED <<delivered, discarded, goConfig, cssEditor>>
    ELSE /\ UNCHANGED <<delivered, goConfig, cssEditor>>
         /\ last' =
              [op |-> "toggle",
               had |-> shown[editor] # <<>>,
               cleared |-> isCoverageApplied,
               started |-> ~isCoverageApplied]
         /\ IF isCoverageApplied
            THEN /\ Commit(clearCoverage(Cur))
                 /\ discarded' = TRUE
                 /\ UNCHANGED pass
            ELSE /\ NextSlot # 0
                 /\ UNCHANGED discarded
                 /\ pass' = [pass EXCEPT ![NextSlot] =
                               [FreePass EXCEPT
                                  !.stage = "test",
                                  !.dir = dirname(Editors[editor].fsPath)]]
                 /\ UNCHANGED <<coverageFiles, origin, isCoverageApplied, decorators, shown>>

\* isModSupported(...).then(isMod => goTest(testConfig).then(success =>
\*     applyCodeCoverageToAllEditors(tmpCoverPath, testConfig.dir)))
GoTestResolved(p) ==
    /\ pass[p].stage = "test"
    /\ BeginPass(p, pass[p].dir, "path")
    /\ last' = OtherOp /\ UNCHANGED delivered

\* applyCodeCoverageToAllEditors(coverProfilePath, packageDirPath), called by
\* another module of the extension (it is exported)
applyCodeCoverageToAllEditors(packageDirPath, pathKind) ==
    /\ NextSlot # 0
    /\ BeginPass(NextSlot, packageDirPath, pathKind)
    /\ last' = OtherOp /\ UNCHANGED delivered

\* lines.on('line', function (data) {...}) of pass p, for the line l
LineEvent(p, l) ==
    /\ pass[p].stage = "reading"
    /\ delivered < MaxLines
    /\ delivered' = delivered + 1
    /\ coverageFiles' = OnLine(coverageFiles, pass[p].dir, ProfileLines[l].text, NoTag)
    /\ origin' = OnLine(origin, pass[p].dir, ProfileLines[l].text,
                        [pass |-> p, line |-> l, dir |-> pass[p].dir])
    /\ pass' = [pass EXCEPT ![p].refs = Referring(@, pass[p].dir, l)]
    /\ last' = [op |-> "line", pass |-> p, line |-> l]
    /\ UNCHANGED <<isCoverageApplied, decorators, shown, discarded, goConfig, cssEditor>>

\* lines.on('close', () => {...}) of pass p
CloseEvent(p, coverageOptions) ==
    /\ pass[p].stage = "reading"
    /\ Commit(ApplyAll(Cur, visibleTextEditors, coverageOptions))
    /\ pass' = [pass EXCEPT ![p].stage = "closed", ![p].promise = "resolved",
                             ![p].refs = <<>>, ![p].dir = <<>>]
    /\ last' = OtherOp /\ UNCHANGED <<delivered, discarded, goConfig, cssEditor>>

\* The read stream of pass p emits 'error': the profile cannot be opened or
\* read.  Neither the stream nor the readline interface has an 'error'
\* handler, and the interface delivers no further event.
StreamError(p) ==
    /\ pass[p].stage = "reading"
    /\ pass' = [pass EXCEPT ![p].stage = "errored",
                             ![p].refs = <<>>, ![p].dir = <<>>]
    /\ last' = OtherOp /\ UNCHANGED <<delivered, discarded, goConfig, cssEditor>>
    /\ UNCHANGED <<coverageFiles, origin, isCoverageApplied, decorators, shown>>

\* applyCodeCoverage(editor), called by the host for an editor that became active
ApplyCodeCoverageCall(e, coverageOptions) ==
    /\ Commit(applyCodeCoverage(Cur, e, coverageOptions))
    /\ last' = OtherOp /\ UNCHANGED <<delivered, discarded, goConfig, cssEditor>>
    /\ UNCHANGED pass

\* updateCodeCoverageDecorators(coverageDecoratorConfig)
updateCodeCoverageDecorators(type) ==
    /\ Commit(setDecorators([Cur EXCEPT !.decorators.type = type]))
    /\ last' = OtherOp /\ UNCHANGED <<delivered, discarded, goConfig, cssEditor>>
    /\ UNCHANGED pass

(***************************************************************************)
(* Changes of documents.                                                   *)
(***************************************************************************)
\* one content change: change.range.isSingleLine, change.text,
\* change.range.start.character and the text of the line of change.range.start
Change(isSingleLine, text, lineText, character) ==
    [isSingleLine |-> isSingleLine, text |-> text, lineText |-> lineText,
     character |-> character]

CodeLine == <<"a", "=", "1">>
CommentedLine == <<"a", " ", "/", "/", " ", "b">>

ChangeInCode == Change(TRUE, <<"x">>, CodeLine, 1)
ChangeInComment == Change(TRUE, <<"x">>, CommentedLine, 5)
ChangeBeforeComment == Change(TRUE, <<"x">>, CommentedLine, 0)
ChangeAtComment == Change(TRUE, <<"x">>, CommentedLine, 2)
NewlineInComment == Change(TRUE, <<"\n">>, CommentedLine, 5)
MultiLineChange == Change(FALSE, <<>>, CommentedLine, 5)

\* e.contentChanges of the events delivered
ContentChanges ==
    { <<>>, <<ChangeInCode>>, <<ChangeBeforeComment>>, <<NewlineInComment>>,
      <<MultiLineChange>>, <<ChangeInComment, ChangeAtComment>>,
      <<ChangeInComment, ChangeInCode>> }

\* History of a change event, from how the changes were made up (not through
\* text.search): the zero-based column at which the line comment of a line
\* starts, or -1
CommentStart(lineText) == IF lineText = CommentedLine THEN 2 ELSE -1

\* the change replaces text of one line, within its line comment, by text
\* without a line break
InLineComment(change) ==
    /\ change.isSingleLine
    /\ change.text = <<"x">>
    /\ CommentStart(change.lineText) # -1
    /\ change.character >= CommentStart(change.lineText)

\* the change spans lines or inserts a line break
BreaksLine(change) == ~change.isSingleLine \/ change.text = <<"\n">>

\* what `last` records of a change event
ChangeOp(contentChanges) ==
    [op |-> "change",
     comment |-> \A i \in 1..Len(contentChanges) : InLineComment(contentChanges[i]),
     lines |-> \E i \in 1..Len(contentChanges) : BreaksLine(contentChanges[i])]

\* text.search('//'): the zero-based index of the first '//', or -1
SearchSlashes(text) ==
    LET at == {i \in 1..(Len(text) - 1) : text[i] = "/" /\ text[i + 1] = "/"}
    IN  IF at = {} THEN -1 ELSE Min(at) - 1

\* text.includes('\n')
IncludesNewline(text) == \E i \in 1..Len(text) : text[i] = "\n"

\* isPartOfComment(e)
isPartOfComment(contentChanges) ==
    \A i \in 1..Len(contentChanges) :
        LET change == contentChanges[i]
            idx == SearchSlashes(change.lineText)
        IN  IF ~change.isSingleLine \/ IncludesNewline(change.text) THEN FALSE
            ELSE idx > -1 /\ idx <= change.character

\* removeCodeCoverageOnFileChange(e), e.document the document of editor d
removeCodeCoverageOnFileChange(d, contentChanges) ==
    /\ IF \/ Editors[d].languageId # "go"
          \/ Len(contentChanges) = 0
          \/ ~isCoverageApplied
       THEN UNCHANGED <<coverageFiles, origin, isCoverageApplied, decorators, shown, discarded>>
       ELSE IF \A e \in visibleTextEditors : e # d
       THEN UNCHANGED <<coverageFiles, origin, isCoverageApplied, decorators, shown, discarded>>
       ELSE IF isPartOfComment(contentChanges)
       THEN UNCHANGED <<coverageFiles, origin, isCoverageApplied, decorators, shown, discarded>>
       ELSE Commit(clearCoverage(Cur)) /\ discarded' = TRUE
    /\ last' = IF /\ Editors[d].languageId = "go"
                  /\ d \in visibleTextEditors
                  /\ Len(contentChanges) > 0
               THEN ChangeOp(contentChanges)
               ELSE OtherOp
    /\ UNCHANGED <<delivered, goConfig, cssEditor>>
    /\ UNCHANGED pass

(***************************************************************************)
(* The specification.                                                      *)
(***************************************************************************)
Next ==
    \/ \E e \in visibleTextEditors \cup {NoEditor} : toggleCoverageCurrentPackage(e)
    \/ \E p \in Passes : GoTestResolved(p)
    \/ \E d \in PackageDirs, k \in ProfilePathKinds : applyCodeCoverageToAllEditors(d, k)
    \/ \E p \in Passes, l \in LineIds : LineEvent(p, l)
    \/ \E p \in Passes, o \in CoverageOptions : CloseEvent(p, o)
    \/ \E p \in Passes : StreamError(p)
    \/ \E e \in visibleTextEditors \cup {NoEditor}, o \in CoverageOptions :
          ApplyCodeCoverageCall(e, o)
    \/ \E t \in DecoratorTypes : updateCodeCoverageDecorators(t)
    \/ \E d \in EditorIds, c \in ContentChanges : removeCodeCoverageOnFileChange(d, c)

Spec == Init /\ [][Next]_vars

(***************************************************************************)
(* Activation: initCoverageDecorators(ctx), for all settings.              *)
(***************************************************************************)
\* let decorators; before setDecorators has run
NoDecorators == [type |-> "undefined", disposed |-> TRUE]

InitActivation ==
    /\ coverageFiles = EmptyFiles
    /\ origin = EmptyFiles
    /\ isCoverageApplied = FALSE
    /\ decorators = NoDecorators
    /\ shown = NoDecorations
    /\ pass = [p \in Passes |-> FreePass]
    /\ delivered = 0
    /\ discarded = FALSE
    /\ last = OtherOp
    /\ \E settings \in Settings :
          goConfig = [coverageDecorator |-> settings, inspectResult |-> NotInspected]
    /\ cssEditor = NoCssEditor

\* initCoverageDecorators(ctx)
initCoverageDecorators ==
    /\ goConfig.inspectResult = NotInspected
    /\ goConfig' = [coverageDecorator |-> MigratedSettings(goConfig.coverageDecorator),
                    inspectResult |-> goConfig.coverageDecorator]
    /\ decorators' = [type |-> ConfiguredType(EffectiveValue(goConfig.coverageDecorator)),
                      disposed |-> FALSE]
    /\ UNCHANGED <<coverageFiles, origin, isCoverageApplied, shown, pass, delivered,
                   discarded, last, cssEditor>>

NextActivation == initCoverageDecorators

SpecActivation == InitActivation /\ [][NextActivation]_vars

(***************************************************************************)
(* The CSS preview: getSelectedCSSProperity(editor), for all documents and  *)
(* selection anchors, and without an editor.                                *)
(***************************************************************************)
InitCss ==
    /\ coverageFiles = EmptyFiles
    /\ origin = EmptyFiles
    /\ isCoverageApplied = FALSE
    /\ decorators = [type |-> "highlight", disposed |-> FALSE]
    /\ shown = NoDecorations
    /\ pass = [p \in Passes |-> FreePass]
    /\ delivered = 0
    /\ discarded = FALSE
    /\ last = OtherOp
    /\ goConfig = [coverageDecorator |-> NewStyleSettings, inspectResult |-> NotInspected]
    /\ \/ cssEditor = NoCssEditor
       \/ \E text \in CssTexts : \E anchor \in 0..Len(text) :
             cssEditor = [NoCssEditor EXCEPT !.open = TRUE, !.text = text, !.anchor = anchor]

\* getSelectedCSSProperity(editor)
getSelectedCSSProperity ==
    /\ cssEditor.snippet.kind = "none"
    /\ cssEditor' =
          [cssEditor EXCEPT !.snippet =
              IF ~cssEditor.open
              THEN errorSnippet("No Active editor - no properties to preview.")
              ELSE SelectedCSSProperity(cssEditor.text, cssEditor.anchor)]
    /\ UNCHANGED <<coverageFiles, origin, isCoverageApplied, decorators, shown, pass,
                   delivered, discarded, last, goConfig>>

NextCss == getSelectedCSSProperity

SpecCss == InitCss /\ [][NextCss]_vars

(***************************************************************************)
(* What the claims are stated with.  These read the profile lines by their *)
(* fields (ProfileLines[l].count, .base, .sl, ...), not through the        *)
(* regular expression and the path functions of the module.                *)
(***************************************************************************)
IsData(l) == ProfileLines[l].kind = "data"

\* the zero-based range a data line describes
RangeOfLine(l) ==
    [startLine |-> ProfileLines[l].sl - 1, startCharacter |-> ProfileLines[l].sc - 1,
     endLine |-> ProfileLines[l].el - 1, endCharacter |-> ProfileLines[l].ec - 1]

\* the covered and the uncovered list of `files` under key (empty when absent)
CoveredAt(files, key) ==
    IF IndexOfKey(files, key) = 0 THEN <<>> ELSE files[IndexOfKey(files, key)].coveredRange

UncoveredAt(files, key) ==
    IF IndexOfKey(files, key) = 0 THEN <<>> ELSE files[IndexOfKey(files, key)].uncoveredRange

\* the history tags of all ranges of the index
TagsOf(files) ==
    UNION {{files[i].coveredRange[j] : j \in 1..Len(files[i].coveredRange)}
           \cup {files[i].uncoveredRange[j] : j \in 1..Len(files[i].uncoveredRange)}
           : i \in 1..Len(files)}

\* the history has the shape of the index
SameShape ==
    /\ Len(origin) = Len(coverageFiles)
    /\ \A i \in 1..Len(origin) :
          /\ origin[i].filename = coverageFiles[i].filename
          /\ Len(origin[i].coveredRange) = Len(coverageFiles[i].coveredRange)
          /\ Len(origin[i].uncoveredRange) = Len(coverageFiles[i].uncoveredRange)

\* a 'line' event of a data line has just been handled
DataLineHandled == last.op = "line" /\ IsData(last.line)

\* C1: every range of a covered list stems from a data line whose CoverCount is
\* > 0 and every range of an uncovered list from one whose CoverCount is 0
C1_Classified ==
    /\ SameShape
    /\ \A i \in 1..Len(origin) :
          /\ \A j \in 1..Len(origin[i].coveredRange) :
                /\ IsData(origin[i].coveredRange[j].line)
                /\ ProfileLines[origin[i].coveredRange[j].line].count > 0
          /\ \A j \in 1..Len(origin[i].uncoveredRange) :
                /\ IsData(origin[i].uncoveredRange[j].line)
                /\ ProfileLines[origin[i].uncoveredRange[j].line].count = 0

\* C1: the 'line' event of a data line appends one range to the covered list of
\* its file and none to the uncovered list when CoverCount > 0, and the other
\* way round when CoverCount = 0
C1_Contributes ==
    DataLineHandled' =>
        LET l == last'.line
            key == ReferredPath(pass[last'.pass].dir, l)
            tag == [pass |-> last'.pass, line |-> l, dir |-> pass[last'.pass].dir]
        IN  IF ProfileLines[l].count > 0
            THEN /\ CoveredAt(origin', key) = Append(CoveredAt(origin, key), tag)
                 /\ UncoveredAt(origin', key) = UncoveredAt(origin, key)
            ELSE /\ UncoveredAt(origin', key) = Append(UncoveredAt(origin, key), tag)
                 /\ CoveredAt(origin', key) = CoveredAt(origin, key)

\* C1: a data line with CoverCount > 0 contributes its range to the covered
\* list of its file and not to the uncovered list, a data line with CoverCount
\* = 0 to the uncovered list and not to the covered list; never to both.
C1_CoveredOrUncovered == [][C1_Contributes /\ C1_Classified']_vars

\* C1 witness: one file holds a covered and an uncovered range
C1_Witness ==
    \E i \in 1..Len(coverageFiles) :
        /\ Len(coverageFiles[i].coveredRange) > 0
        /\ Len(coverageFiles[i].uncoveredRange) > 0

\* the number of ranges the index holds under key
CountAt(files, key) == Len(CoveredAt(files, key)) + Len(UncoveredAt(files, key))

\* the number of data lines of the history refs that referred to key
RefsAt(refs, key) == IF key \in DOMAIN refs THEN refs[key] ELSE 0

\* the index holds, for every file, as many ranges as data lines of pass p
\* referred to it
HoldsProfileOf(p) ==
    \A key \in KeysOf(coverageFiles) \cup DOMAIN pass[p].refs :
        CountAt(coverageFiles, key) = RefsAt(pass[p].refs, key)

\* C2 (as claimed): when the 'close' event of a pass is delivered, the index
\* holds for every file key as many ranges (covered plus uncovered) as the
\* profile of that pass has data lines referring to that file.
C2_CountAtClose ==
    [][\A p \in Passes :
          (pass[p].stage = "reading" /\ pass'[p].stage = "closed") => HoldsProfileOf(p)]_vars

\* C3: once a pass has begun, the index holds no range (and so no key) that
\* stems from a pass that had completed before it began; every key of the
\* index holds at least one range.
C3_NoResidue ==
    /\ SameShape
    /\ \A i \in 1..Len(coverageFiles) :
          Len(coverageFiles[i].coveredRange) + Len(coverageFiles[i].uncoveredRange) > 0
    /\ \A p \in Passes : \A q \in pass[p].closedBefore :
          \A t \in TagsOf(origin) : t.pass # q

\* C3 witness: a pass that began after another had completed has ingested
\* a data line
C3_Witness ==
    \E p \in Passes :
        /\ pass[p].closedBefore # {}
        /\ \E t \in TagsOf(origin) : t.pass = p

\* C4 (as claimed): no two passes read at the same time, and the ranges of the
\* index all stem from one pass.
C4_OnePassAtATime ==
    /\ \A p, q \in Passes :
          (pass[p].stage = "reading" /\ pass[q].stage = "reading") => p = q
    /\ \A t, u \in TagsOf(origin) : t.pass = u.pass

\* C5 (as claimed): while a pass is reading, nothing of the index is published
\* (no editor shows decorations, isCoverageApplied is false) and no other
\* operation has changed the index (it holds the data lines read so far).
C5_NoPartialIndex ==
    \A p \in Passes :
        pass[p].stage = "reading" =>
            /\ \A e \in EditorIds : shown[e] = <<>>
            /\ ~isCoverageApplied
            /\ HoldsProfileOf(p)

\* C6 (as claimed): when the profile cannot be opened or read, the promise of
\* the pass is rejected and no partial index is left.
C6_RejectedOnError ==
    \A p \in Passes :
        pass[p].stage = "errored" =>
            /\ pass[p].promise = "rejected"
            /\ coverageFiles = EmptyFiles

\* C7: a 'line' event of a line that is no data line leaves the index as it
\* was and the pass reading; the 'line' event of a data line adds exactly one
\* range, whatever the pass was delivered before.
C7_Handled ==
    last'.op = "line" =>
        /\ pass'[last'.pass].stage = "reading"
        /\ IF IsData(last'.line)
           THEN Cardinality(KeysOf(coverageFiles')) >= Cardinality(KeysOf(coverageFiles))
                /\ \E key \in KeysOf(coverageFiles') :
                      /\ CountAt(coverageFiles', key) = CountAt(coverageFiles, key) + 1
                      /\ \A other \in KeysOf(coverageFiles') \cup KeysOf(coverageFiles) :
                            other # key =>
                               /\ CoveredAt(coverageFiles', other) = CoveredAt(coverageFiles, other)
                               /\ UncoveredAt(coverageFiles', other) = UncoveredAt(coverageFiles, other)
           ELSE coverageFiles' = coverageFiles

C7_SkipsOtherLines == [][C7_Handled]_vars

\* C7 witness: the only pass was delivered a line that is no data line and
\* then a data line, whose range the index holds
C7_Witness ==
    /\ DataLineHandled
    /\ delivered = 2
    /\ \A q \in Passes : q # last.pass => pass[q].stage = "free"
    /\ pass[last.pass].stage = "reading"
    /\ Cardinality(TagsOf(origin)) = 1
    /\ \A key \in DOMAIN pass[last.pass].refs : pass[last.pass].refs[key] = 1
    /\ Len(coverageFiles) = 1

\* C8: every key appears once, and every range is stored under the base
\* directory of its pass joined with the base name of its line's filename,
\* whatever directory that filename has.
C8_KeyIsDirAndBaseName ==
    /\ SameShape
    /\ \A i, j \in 1..Len(coverageFiles) :
          coverageFiles[i].filename = coverageFiles[j].filename => i = j
    /\ \A i \in 1..Len(origin) :
          \A t \in TagsOf(<<origin[i]>>) :
              coverageFiles[i].filename = ReferredPath(t.dir, t.line)

\* C8 witness: one key holds the ranges of two lines whose filenames differ in
\* their directory
C8_Witness ==
    \E i \in 1..Len(origin) :
        \E t, u \in TagsOf(<<origin[i]>>) :
            /\ ProfileLines[t.line].base = ProfileLines[u.line].base
            /\ ProfileLines[t.line].dir # ProfileLines[u.line].dir

\* C9: the range stored for a data line is (startLine - 1, startColumn - 1,
\* endLine - 1, endColumn - 1) of the fields of that line.
C9_ZeroBased ==
    /\ SameShape
    /\ \A i \in 1..Len(coverageFiles) :
          /\ \A j \in 1..Len(coverageFiles[i].coveredRange) :
                coverageFiles[i].coveredRange[j] = RangeOfLine(origin[i].coveredRange[j].line)
          /\ \A j \in 1..Len(coverageFiles[i].uncoveredRange) :
                coverageFiles[i].uncoveredRange[j] = RangeOfLine(origin[i].uncoveredRange[j].line)

\* C9 witness: 'a.go:3.1,5.2 2 1' is stored as {2,0,4,1} and
\* 'a.go:10.1,10.5 1 0' as {9,0,9,4}
C9_Witness ==
    \E i \in 1..Len(coverageFiles) :
        /\ coverageFiles[i].coveredRange = <<Range(2, 0, 4, 1)>>
        /\ coverageFiles[i].uncoveredRange = <<Range(9, 0, 9, 4)>>

\* C10 (as claimed): a toggle with an active editor removes the coverage and
\* starts no test run when that editor has coverage applied (shows
\* decorations), and starts a test run otherwise.
C10_ToggleByActiveEditor ==
    last.op = "toggle" =>
        /\ last.had => (last.cleared /\ ~last.started)
        /\ ~last.had => last.started

\* the visible editors applyCodeCoverage does not skip whose path ends with a
\* key of the index `files`
MatchingEditors(files) ==
    {e \in visibleTextEditors :
        /\ Editors[e].languageId = "go"
        /\ ~endsWith(Editors[e].fsPath, <<"_", "t", "e", "s", "t", ".", "g", "o">>)
        /\ \E key \in KeysOf(files) : endsWith(Editors[e].fsPath, key)}

\* C11 (as claimed): when the 'close' event of a pass has been handled (its
\* promise resolves), every visible Go non-test editor whose path matches a key
\* of the index shows decorations of the current, undisposed decorators.
C11_AllVisibleEditorsDecorated ==
    [][\A p \in Passes :
          (pass[p].stage = "reading" /\ pass'[p].stage = "closed") =>
              /\ ~decorators'.disposed
              /\ \A e \in MatchingEditors(coverageFiles') : shown'[e] # <<>>]_vars

\* a change of a Go document shown in a visible editor has just been handled
ChangeHandled == last.op = "change"

\* no coverage is held or shown
Cleared ==
    /\ coverageFiles = EmptyFiles
    /\ decorators.disposed
    /\ \A e \in EditorIds : shown[e] = <<>>
    /\ ~isCoverageApplied

\* C12 (as claimed): when a non-empty change of a Go document shown in a
\* visible editor, not entirely inside a line comment, is handled while the
\* index holds coverage data, afterwards the index is empty, the decorators
\* are disposed and isCoverageApplied is false.
C12_ChangeClearsStaleData ==
    [][(ChangeHandled' /\ ~last'.comment /\ coverageFiles # EmptyFiles) => Cleared']_vars

\* the step is a toggle or a change of a document that called clearCoverage
ExplicitClear ==
    \/ last'.op = "toggle" /\ last'.cleared
    \/ ~discarded /\ discarded'

\* C13 (as claimed): right after coverage was cleared by toggle or by a change
\* of a document the index has no keys, isCoverageApplied is false and the
\* decorators are disposed; from then on and until the next pass begins the
\* index stays empty.
C13_DiscardedInFull ==
    [][/\ ExplicitClear => Cleared'
       /\ discarded' => coverageFiles' = EmptyFiles]_vars

\* initCoverageDecorators has run
Activated == goConfig.inspectResult # NotInspected

\* the value a scope holds after the migration of the value `before`
MigratedValue(before) ==
    IF before.kind = "string" THEN [kind |-> "object", type |-> before] ELSE before

\* C14 (as claimed): after initCoverageDecorators, each of the three scopes
\* whose value was a string holds { type: that scope's string }, and each
\* other scope holds what it held.
C14_MigratesEachScope ==
    Activated =>
        /\ goConfig.coverageDecorator.globalValue
              = MigratedValue(goConfig.inspectResult.globalValue)
        /\ goConfig.coverageDecorator.workspaceValue
              = MigratedValue(goConfig.inspectResult.workspaceValue)
        /\ goConfig.coverageDecorator.workspaceFolderValue
              = MigratedValue(goConfig.inspectResult.workspaceFolderValue)

\* the decorations of the covered and of the uncovered ranges, by name
CoveredNames == {"coveredGutterDecorator", "coveredHighlightDecorator"}
UncoveredNames == {"uncoveredGutterDecorator", "uncoveredHighlightDecorator"}

\* applyCodeCoverage(e) under coverageOptions o sets the decorations of the
\* covered ranges only for the two options that show them, and likewise those
\* of the uncovered ranges
SetsOnlyWhatIsOpted(e, o) ==
    ApplyCodeCoverageCall(e, o) =>
        /\ (DOMAIN shown'[e] \cap CoveredNames # {}) =>
              o \in {"showCoveredCodeOnly", "showBothCoveredAndUncoveredCode"}
        /\ (DOMAIN shown'[e] \cap UncoveredNames # {}) =>
              o \in {"showUncoveredCodeOnly", "showBothCoveredAndUncoveredCode"}

\* C15 (as claimed): applyCodeCoverage sets covered-range decorations only
\* under 'showCoveredCodeOnly' or 'showBothCoveredAndUncoveredCode' and
\* uncovered-range decorations only under 'showUncoveredCodeOnly' or
\* 'showBothCoveredAndUncoveredCode', and isCoverageApplied is true only when
\* some editor has a decoration set.
C15_AppliedOnlyWhenDecorated ==
    [][/\ \A e \in visibleTextEditors, o \in CoverageOptions : SetsOnlyWhatIsOpted(e, o)
       /\ isCoverageApplied' => \E e \in EditorIds : shown'[e] # <<>>]_vars

\* the first half of C15 alone
C15_OnlyWhatIsOpted ==
    [][\A e \in visibleTextEditors, o \in CoverageOptions : SetsOnlyWhatIsOpted(e, o)]_vars

\* no coverage is left: none held, none shown, none taken for applied
NoCoverage ==
    /\ coverageFiles = EmptyFiles
    /\ \A e \in EditorIds : shown[e] = <<>>
    /\ ~isCoverageApplied

\* a change that lies entirely inside line comments leaves the index, the
\* decorators, the decorations and isCoverageApplied as they were
CommentEditKeeps ==
    (ChangeHandled' /\ last'.comment) =>
        UNCHANGED <<coverageFiles, decorators, shown, isCoverageApplied>>

\* C16 (as claimed): a change of a visible Go document that lies entirely
\* inside line comments leaves the index, the decorators and
\* isCoverageApplied unchanged; a change that spans lines or inserts a line
\* break clears coverage.
C16_CommentEditsKeepCoverage ==
    [][/\ CommentEditKeeps
       /\ (ChangeHandled' /\ last'.lines) => NoCoverage']_vars

\* the halves of C16 that hold: the edit inside comments, and the change that
\* breaks a line while isCoverageApplied is true
C16_CommentEditKeeps == [][CommentEditKeeps]_vars

C16_LineBreakClearsApplied ==
    [][(ChangeHandled' /\ last'.lines /\ isCoverageApplied) => Cleared']_vars

\* the offsets of the character c in text
OffsetsOf(text, c) == {k \in 0..(Len(text) - 1) : text[k + 1] = c}

\* the offset of the last '{' at or before the anchor, or -1
OpenBefore(text, anchor) ==
    IF \E k \in OffsetsOf(text, "{") : k <= anchor
    THEN Max({k \in OffsetsOf(text, "{") : k <= anchor})
    ELSE -1

\* the offset of the first '}' after offset open, or -1
CloseAfter(text, open) ==
    IF \E k \in OffsetsOf(text, "}") : k > open
    THEN Min({k \in OffsetsOf(text, "}") : k > open})
    ELSE -1

\* the anchor lies inside a '{'...'}' pair
Enclosed(text, anchor) ==
    /\ OpenBefore(text, anchor) # -1
    /\ CloseAfter(text, OpenBefore(text, anchor)) # -1
    /\ anchor <= CloseAfter(text, OpenBefore(text, anchor))

\* the text strictly between the '{' at open and the '}' at close
Between(text, open, close) == [i \in 1..(close - open - 1) |-> text[open + 1 + i]]

\* C17 (as claimed): for an editor with a document, getSelectedCSSProperity
\* returns the text strictly between the last '{' at or before the anchor and
\* the first '}' after it when the anchor lies between those two braces, and
\* the error snippet when the anchor is inside no '{'...'}' pair.
C17_BodyOfEnclosingRule ==
    (cssEditor.open /\ cssEditor.snippet.kind # "none") =>
        IF Enclosed(cssEditor.text, cssEditor.anchor)
        THEN /\ cssEditor.snippet.kind = "properties"
             /\ cssEditor.snippet.value =
                    Between(cssEditor.text, OpenBefore(cssEditor.text, cssEditor.anchor),
                            CloseAfter(cssEditor.text,
                                       OpenBefore(cssEditor.text, cssEditor.anchor)))
        ELSE cssEditor.snippet.kind = "error"

====
